---- MODULE Spec2Model ----
(***************************************************************************)
(* A model of xctestrunner/test_runner/xctestrun.py: the XctestRun store   *)
(* over one property-list document and the XctestRunFactory that generates *)
(* the document and the TEST_ROOT layout.                                  *)
(*                                                                         *)
(* A document value is a tree, written as a function from paths (sequences *)
(* of mapping keys) to nodes.  A node is a mapping ("dict"), a list of     *)
(* strings ("list") or a string ("str"); a string is kept as the sequence  *)
(* of its path segments, so that the text replacement of GenerateXctestrun *)
(* can be computed on it.  "none" is Python's None and is never stored.    *)
(***************************************************************************)
EXTENDS Integers, Sequences, FiniteSets, TLC

VARIABLES
  plist,        \* content of the property-list file the store is bound to
  root_key,     \* XctestRun._root_key
  history,      \* the store calls made so far, most recent last
  obj_test_type,  \* XctestRun._test_type ("" is None)
  fs,           \* the file system: a tree of directories, files and links
  args,         \* the arguments XctestRunFactory is constructed with
  phase,        \* "new", "ready" (constructed) or "ctor_failed"
  ctor_exc,     \* the exception __init__ raised ("" for none)
  scope,        \* "direct" calls, or the place in a with statement
  calls,        \* the factory calls made so far, most recent last
  app_under_test_dir,   \* XctestRunFactory._app_under_test_dir
  test_bundle_dir,      \* XctestRunFactory._test_bundle_dir
  work_dir,             \* XctestRunFactory._work_dir
  test_root_dir,        \* XctestRunFactory._test_root_dir
  xctestrun_file_path,  \* XctestRunFactory._xctestrun_file_path
  xctestrun_obj,        \* XctestRunFactory._xctestrun_obj (0 is None)
  delete_work_dir       \* XctestRunFactory._delete_work_dir

storeVars == <<plist, root_key, history, obj_test_type>>

fieldVars == <<app_under_test_dir, test_bundle_dir, work_dir, test_root_dir,
               xctestrun_file_path, xctestrun_obj, delete_work_dir>>

factoryVars == <<fs, args, phase, ctor_exc, scope, calls, fieldVars>>

vars == <<storeVars, factoryVars>>

\* ------------------------------------------------------------- bounds

MaxOps == 2

MaxCalls == 3

MaxHelperOps == 3

\* ------------------------------------------------------ document values

Node(k, v) == [kind |-> k, val |-> v]

Leaf(segs) == (<<>> :> Node("str", segs))

ListVal(elems) == (<<>> :> Node("list", elems))

EmptyDict == (<<>> :> Node("dict", <<>>))

NoneVal == (<<>> :> Node("none", <<>>))

IsPrefix(p, q) == Len(p) <= Len(q) /\ SubSeq(q, 1, Len(p)) = p

Suffix(p, r) == SubSeq(r, Len(p) + 1, Len(r))

\* the value held at path p of tree t (p is in DOMAIN t)
Subtree(t, p) ==
  [q \in {Suffix(p, r) : r \in {x \in DOMAIN t : IsPrefix(p, x)}} |-> t[p \o q]]

\* tree t with the value at path p replaced by (or created as) v
Graft(t, p, v) ==
  [r \in {x \in DOMAIN t : ~IsPrefix(p, x)} \cup {p \o q : q \in DOMAIN v} |->
     IF IsPrefix(p, r) THEN v[Suffix(p, r)] ELSE t[r]]

\* tree t without the value at path p
Prune(t, p) == [r \in {x \in DOMAIN t : ~IsPrefix(p, x)} |-> t[r]]

\* the keys of the mapping at the root of tree t
KeysOf(t) == {r[1] : r \in {x \in DOMAIN t : Len(x) = 1}}

\* Python truthiness of a value: None, {}, [] and '' are false
Truthy(v) ==
  CASE v[<<>>].kind = "none" -> FALSE
    [] v[<<>>].kind = "dict" -> KeysOf(v) # {}
    [] OTHER -> v[<<>>].val # <<>>

\* a mapping of strings, from a function m of keys to one-segment strings
EnvTree(m) ==
  [r \in {<<>>} \cup {<<k>> : k \in DOMAIN m} |->
     IF r = <<>> THEN Node("dict", <<>>) ELSE Node("str", <<m[r[1]]>>)]

\* ------------------------------------------- plist_util.Plist (collaborator)

Ok(v) == [exc |-> "", ret |-> v]

Raise(e) == [exc |-> e, ret |-> NoneVal]

\* walk the document segment by segment; an absent segment, or a segment
\* below a value that is not a mapping, is a lookup error
GetPlistField(d, path) ==
  IF \A i \in 0..Len(path) : SubSeq(path, 1, i) \in DOMAIN d
  THEN Ok(Subtree(d, path))
  ELSE Raise("PlistError")

\* write v at path; the container of the last segment must exist and be a
\* mapping (intermediate containers are not created)
SetPlistField(d, path, v) ==
  LET parent == SubSeq(path, 1, Len(path) - 1) IN
  IF parent \in DOMAIN d /\ d[parent].kind = "dict"
  THEN Ok(Graft(d, path, v))
  ELSE Raise("PlistError")

\* remove the value at path; an absent path is a lookup error
DeletePlistField(d, path) ==
  IF path \in DOMAIN d THEN Ok(Prune(d, path)) ELSE Raise("PlistError")

\* ------------------------------------------------------- ios_constants

IPHONEOS == "iphoneos"

IPHONESIMULATOR == "iphonesimulator"

XCUITEST == "xcuitest"

XCTEST == "xctest"

LOGIC_TEST == "logic_test"

\* --------------------------------------------------------- class XctestRun

\* '%s:%s' % (self._root_key, field), as the segments the colons separate
FieldPath(root, field) == <<root>> \o field

\* a mutant: the lookup error is not caught
GetXctestrunField_NoCatch(d, root, field) ==
  GetPlistField(d, FieldPath(root, field))

GetXctestrunField(d, root, field) ==
  LET r == GetPlistField(d, FieldPath(root, field)) IN
  IF r.exc = "PlistError" THEN Ok(NoneVal) ELSE r

HasXctestrunField(d, root, field) ==
  LET r == GetPlistField(d, FieldPath(root, field)) IN
  IF r.exc = "PlistError" THEN FALSE ELSE TRUE

\* a mutant: the field is written beside the root key, not under it
SetXctestrunField_NoRoot(d, root, field, value) ==
  SetPlistField(d, field, value)

SetXctestrunField(d, root, field, value) ==
  SetPlistField(d, FieldPath(root, field), value)

\* a mutant: deleting an absent field is silently accepted
DeleteXctestrunField_Silent(d, root, field) ==
  LET r == DeletePlistField(d, FieldPath(root, field)) IN
  IF r.exc = "PlistError" THEN Ok(d) ELSE r

DeleteXctestrunField(d, root, field) ==
  DeletePlistField(d, FieldPath(root, field))

\* for key, value in env_vars.items(): target[key] = value
RECURSIVE UpdateItems(_, _, _)
UpdateItems(target, env_vars, keys) ==
  IF keys = {} THEN target
  ELSE LET k == CHOOSE x \in keys : TRUE IN
       UpdateItems(Graft(target, <<k>>, Subtree(env_vars, <<k>>)),
                   env_vars, keys \ {k})

\* the result of a helper: the exception raised ("" for none) and the
\* document it leaves
Done(d) == [exc |-> "", ret |-> d]

\* a mutant: the given mapping replaces the stored one
SetTestEnvVars_Replace(d, root, env_vars) ==
  IF ~Truthy(env_vars) THEN Done(d)
  ELSE LET r == SetXctestrunField(d, root, <<"EnvironmentVariables">>, env_vars)
       IN IF r.exc = "" THEN r ELSE [exc |-> r.exc, ret |-> d]

SetTestEnvVars(d, root, env_vars) ==
  IF ~Truthy(env_vars) THEN Done(d)
  ELSE LET got == GetXctestrunField(d, root, <<"EnvironmentVariables">>)
           test_env_vars == IF ~Truthy(got.ret) THEN EmptyDict ELSE got.ret
       IN IF got.exc # "" THEN [exc |-> got.exc, ret |-> d]
          ELSE IF test_env_vars[<<>>].kind # "dict"
          THEN [exc |-> "TypeError", ret |-> d]
          ELSE LET r == SetXctestrunField(d, root, <<"EnvironmentVariables">>,
                          UpdateItems(test_env_vars, env_vars, KeysOf(env_vars)))
               IN IF r.exc = "" THEN r ELSE [exc |-> r.exc, ret |-> d]

\* a mutant: the given arguments are added to the stored ones
SetTestArgs_Extend(d, root, arguments) ==
  IF ~Truthy(arguments) THEN Done(d)
  ELSE LET got == GetXctestrunField(d, root, <<"CommandLineArguments">>)
           old == IF got.ret[<<>>].kind = "list" THEN got.ret[<<>>].val
                  ELSE <<>>
           r == SetXctestrunField(d, root, <<"CommandLineArguments">>,
                                  ListVal(old \o arguments[<<>>].val))
       IN IF r.exc = "" THEN r ELSE [exc |-> r.exc, ret |-> d]

\* SetTestArgs, lines 76-85
SetTestArgs(d, root, arguments) ==
  IF ~Truthy(arguments) THEN Done(d)
  ELSE LET r == SetXctestrunField(d, root, <<"CommandLineArguments">>,
                                  arguments)
       IN IF r.exc = "" THEN r ELSE [exc |-> r.exc, ret |-> d]

\* SetAppUnderTestEnvVars, lines 87-104; type is self._test_type
SetAppUnderTestEnvVars(d, root, type, env_vars) ==
  IF ~Truthy(env_vars) THEN Done(d)
  ELSE LET key == IF type = XCUITEST
                  THEN <<"UITargetAppEnvironmentVariables">>
                  ELSE <<"EnvironmentVariables">>
           got == GetXctestrunField(d, root, key)
           aut_env_vars == IF ~Truthy(got.ret) THEN EmptyDict ELSE got.ret
       IN IF aut_env_vars[<<>>].kind # "dict"
          THEN [exc |-> "TypeError", ret |-> d]
          ELSE LET r == SetXctestrunField(d, root, key,
                          UpdateItems(aut_env_vars, env_vars, KeysOf(env_vars)))
               IN IF r.exc = "" THEN r ELSE [exc |-> r.exc, ret |-> d]

\* SetAppUnderTestArgs, lines 106-118; type is self._test_type
SetAppUnderTestArgs(d, root, type, arguments) ==
  IF ~Truthy(arguments) THEN Done(d)
  ELSE LET key == IF type = XCUITEST
                  THEN <<"UITargetAppCommandLineArguments">>
                  ELSE <<"CommandLineArguments">>
           r == SetXctestrunField(d, root, key, arguments)
       IN IF r.exc = "" THEN r ELSE [exc |-> r.exc, ret |-> d]

\* SetTestsToRun, lines 120-129
SetTestsToRun(d, root, tests_to_run) ==
  IF ~Truthy(tests_to_run) \/ tests_to_run = ListVal(<<"all">>) THEN Done(d)
  ELSE LET r == SetXctestrunField(d, root, <<"OnlyTestIdentifiers">>,
                                  tests_to_run)
       IN IF r.exc = "" THEN r ELSE [exc |-> r.exc, ret |-> d]

\* SetSkipTests, lines 131-140
SetSkipTests(d, root, skip_tests) ==
  IF ~Truthy(skip_tests) THEN Done(d)
  ELSE LET r == SetXctestrunField(d, root, <<"SkipTestIdentifiers">>,
                                  skip_tests)
       IN IF r.exc = "" THEN r ELSE [exc |-> r.exc, ret |-> d]

\* a mutant: the inferred mode is returned but not kept
test_type_NoMemo(d, root, type) ==
  IF type = ""
  THEN [type |-> type,
        ret |-> IF HasXctestrunField(d, root, <<"UITargetAppPath">>)
                THEN XCUITEST ELSE XCTEST]
  ELSE [type |-> type, ret |-> type]

\* the test_type property, lines 167-174: the value of self._test_type it
\* leaves, and the value it returns
test_type(d, root, type) ==
  LET inferred == IF type = ""
                  THEN IF HasXctestrunField(d, root, <<"UITargetAppPath">>)
                       THEN XCUITEST ELSE XCTEST
                  ELSE type
  IN [type |-> inferred, ret |-> inferred]

\* ------------------------------------------------ the store's callers

EnvKeys == {"A", "B"}

EnvValues == {"1", "2"}

\* the mappings of strings a caller passes as env_vars
EnvDicts ==
  {EnvTree(m) : m \in UNION {[ks -> EnvValues] : ks \in SUBSET EnvKeys}}

\* the values a caller writes: strings, lists of strings, mappings
Values ==
  {Leaf(<<"1">>), Leaf(<<"2">>), ListVal(<<"x">>), ListVal(<<>>),
   EmptyDict, EnvTree("A" :> "1"), EnvTree("A" :> "2" @@ "B" :> "2")}

\* the field paths a caller names
Fields ==
  {<<"EnvironmentVariables">>, <<"EnvironmentVariables", "A">>,
   <<"UITargetAppPath">>, <<"Missing", "Sub">>}

\* a document with the one root key `root` over the mapping `body`
RootDoc(root, body) == Graft(EmptyDict, <<root>>, body)

\* the documents a store is opened on
StoreBodies ==
  {EmptyDict,
   Graft(EmptyDict, <<"EnvironmentVariables">>, EnvTree("A" :> "1")),
   Graft(EmptyDict, <<"EnvironmentVariables">>, EnvTree("B" :> "1")),
   Graft(EmptyDict, <<"UITargetAppPath">>, Leaf(<<"1">>)),
   Graft(EmptyDict, <<"EnvironmentVariables">>, Leaf(<<"1">>))}

\* one call of a store method: what was called, with what, on which
\* document, and how it ended
Call(op, field, arg, pre, exc, ret, has) ==
  [op |-> op, field |-> field, arg |-> arg, pre |-> pre,
   exc |-> exc, ret |-> ret, has |-> has]

\* XctestRun.__init__: the root key is the document's only top-level key
StoreInit ==
  /\ \E body \in StoreBodies : plist = RootDoc("MyTests", body)
  /\ root_key \in KeysOf(plist)
  /\ history = <<>>
  /\ obj_test_type = ""
  /\ fs = (<<>> :> Node("dir", <<>>))
  /\ args = <<>>
  /\ phase = "ready"
  /\ ctor_exc = ""
  /\ scope = "direct"
  /\ calls = <<>>
  /\ app_under_test_dir = <<>>
  /\ test_bundle_dir = <<>>
  /\ work_dir = <<>>
  /\ test_root_dir = <<>>
  /\ xctestrun_file_path = <<>>
  /\ xctestrun_obj = 0
  /\ delete_work_dir = FALSE

CallGet(field) ==
  LET r == GetXctestrunField(plist, root_key, field) IN
  /\ Len(history) < MaxOps
  /\ history' = Append(history,
        Call("Get", field, NoneVal, plist, r.exc, r.ret, FALSE))
  /\ UNCHANGED <<plist, root_key, obj_test_type, factoryVars>>

CallHas(field) ==
  /\ Len(history) < MaxOps
  /\ history' = Append(history,
        Call("Has", field, NoneVal, plist, "", NoneVal,
             HasXctestrunField(plist, root_key, field)))
  /\ UNCHANGED <<plist, root_key, obj_test_type, factoryVars>>

CallSet(field, value) ==
  LET r == SetXctestrunField(plist, root_key, field, value) IN
  /\ Len(history) < MaxOps
  /\ plist' = IF r.exc = "" THEN r.ret ELSE plist
  /\ history' = Append(history,
        Call("Set", field, value, plist, r.exc, NoneVal, FALSE))
  /\ UNCHANGED <<root_key, obj_test_type, factoryVars>>

CallDelete(field) ==
  LET r == DeleteXctestrunField(plist, root_key, field) IN
  /\ Len(history) < MaxOps
  /\ plist' = IF r.exc = "" THEN r.ret ELSE plist
  /\ history' = Append(history,
        Call("Delete", field, NoneVal, plist, r.exc, NoneVal, FALSE))
  /\ UNCHANGED <<root_key, obj_test_type, factoryVars>>

CallSetTestEnvVars(env_vars) ==
  LET r == SetTestEnvVars(plist, root_key, env_vars) IN
  /\ Len(history) < MaxOps
  /\ plist' = r.ret
  /\ history' = Append(history,
        Call("SetTestEnvVars", <<"EnvironmentVariables">>, env_vars, plist,
             r.exc, NoneVal, FALSE))
  /\ UNCHANGED <<root_key, obj_test_type, factoryVars>>

StoreNext ==
  \/ \E f \in Fields : CallGet(f)
  \/ \E f \in Fields : CallHas(f)
  \/ \E f \in Fields, v \in Values : CallSet(f, v)
  \/ \E f \in Fields : CallDelete(f)
  \/ \E e \in EnvDicts : CallSetTestEnvVars(e)

StoreSpec == StoreInit /\ [][StoreNext]_vars

\* ------------------------------------------------ properties of the store

Absent(d, field) == FieldPath(root_key, field) \notin DOMAIN d

\* the document a call left behind
Post(i) == IF i < Len(history) THEN history[i + 1].pre ELSE plist

\* call i + 1 is a call of `op` on the field of call i
Then(i, op) ==
  /\ i + 1 \in DOMAIN history
  /\ history[i + 1].op = op
  /\ history[i + 1].field = history[i].field

\* C7 as stated: GetXctestrunField on a path that is not in the document
\* fails with a lookup error.
C7_Original ==
  \A i \in DOMAIN history :
    (history[i].op = "Get" /\ Absent(history[i].pre, history[i].field))
      => history[i].exc = "PlistError"

\* C7, amended: GetXctestrunField on a path that is not in the document
\* raises nothing and returns None, a value no field holds (a present field
\* is returned as stored, never as None); HasXctestrunField raises nothing
\* and is false exactly on the paths that are not in the document.
C7_AbsentFieldIsNone ==
  \A i \in DOMAIN history :
    /\ history[i].op = "Get" =>
          /\ history[i].exc = ""
          /\ Absent(history[i].pre, history[i].field)
                => history[i].ret = NoneVal
          /\ ~Absent(history[i].pre, history[i].field)
                => /\ history[i].ret # NoneVal
                   /\ history[i].ret =
                        Subtree(history[i].pre,
                                FieldPath(root_key, history[i].field))
    /\ history[i].op = "Has" =>
          /\ history[i].exc = ""
          /\ history[i].has = ~Absent(history[i].pre, history[i].field)

C7_Witness ==
  /\ Len(history) = 2
  /\ history[1].op = "Get" /\ history[1].field = <<"Missing", "Sub">>
  /\ history[1].ret = NoneVal
  /\ history[2].op = "Has" /\ history[2].field = <<"Missing", "Sub">>
  /\ ~history[2].has

\* C8: SetXctestrunField succeeds whenever the container of the last
\* segment is a mapping of the document, it writes under the root key (the
\* document keeps its one root key), and a GetXctestrunField of the same
\* path right after it returns the written value, whatever the path held.
C8_SetThenGet ==
  \A i \in DOMAIN history :
    history[i].op = "Set" =>
      LET path == FieldPath(root_key, history[i].field)
          parent == SubSeq(path, 1, Len(path) - 1)
      IN /\ (parent \in DOMAIN history[i].pre
               /\ history[i].pre[parent].kind = "dict")
              => history[i].exc = ""
         /\ KeysOf(Post(i)) = {root_key}
         /\ (history[i].exc = "" /\ Then(i, "Get"))
              => /\ history[i + 1].exc = ""
                 /\ history[i + 1].ret = history[i].arg

C8_Witness ==
  /\ Len(history) = 2
  /\ history[1].op = "Set" /\ history[1].exc = ""
  /\ history[1].field = <<"EnvironmentVariables">>
  /\ ~Absent(history[1].pre, history[1].field)
  /\ history[1].arg = EnvTree("A" :> "2" @@ "B" :> "2")
  /\ Subtree(history[1].pre, FieldPath(root_key, history[1].field))
       # history[1].arg
  /\ Then(1, "Get")
  /\ history[2].ret = history[1].arg

\* C9 as stated: a GetXctestrunField right after a successful
\* DeleteXctestrunField of the same path fails with a lookup error.
C9_Original ==
  \A i \in DOMAIN history :
    (history[i].op = "Delete" /\ history[i].exc = "" /\ Then(i, "Get"))
      => history[i + 1].exc = "PlistError"

\* C9, amended: DeleteXctestrunField succeeds exactly on the paths that are
\* in the document; after it the path is not in the document, so that a
\* GetXctestrunField of it raises nothing and returns None and a
\* HasXctestrunField of it is false; on a path that is not in the document
\* it fails with a lookup error and leaves the document as it was.
C9_DeleteThenGet ==
  \A i \in DOMAIN history :
    history[i].op = "Delete" =>
      /\ ~Absent(history[i].pre, history[i].field) =>
            /\ history[i].exc = ""
            /\ Absent(Post(i), history[i].field)
            /\ Then(i, "Get") => /\ history[i + 1].exc = ""
                                 /\ history[i + 1].ret = NoneVal
            /\ Then(i, "Has") => ~history[i + 1].has
      /\ Absent(history[i].pre, history[i].field) =>
            /\ history[i].exc = "PlistError"
            /\ Post(i) = history[i].pre

C9_Witness ==
  /\ Len(history) = 2
  /\ history[1].op = "Delete" /\ history[1].exc = ""
  /\ history[1].field = <<"EnvironmentVariables", "A">>
  /\ Then(1, "Get")
  /\ history[2].ret = NoneVal

\* the mapping of strings held by EnvironmentVariables in document d, as
\* a function of its keys ({} when the field is absent or holds nothing)
EnvOf(d) ==
  LET got == GetPlistField(d, <<root_key, "EnvironmentVariables">>) IN
  IF got.exc # "" THEN <<>>
  ELSE [k \in KeysOf(got.ret) |-> got.ret[<<k>>]]

IsMapping(d) ==
  LET got == GetPlistField(d, <<root_key, "EnvironmentVariables">>) IN
  got.exc # "" \/ ~Truthy(got.ret) \/ got.ret[<<>>].kind = "dict"

\* C10: SetTestEnvVars with an empty mapping leaves the document as it
\* was; with a non-empty one, on a document whose EnvironmentVariables is
\* absent, empty or a mapping, it raises nothing and leaves in
\* EnvironmentVariables exactly the keys held before and the given ones,
\* a given key with the given value and every other key with the value it
\* had; so two calls in a row keep the keys of both, the later value
\* winning.
C10_EnvVarsMerge ==
  \A i \in DOMAIN history :
    history[i].op = "SetTestEnvVars" =>
      LET before == EnvOf(history[i].pre)
          given == [k \in KeysOf(history[i].arg) |-> history[i].arg[<<k>>]]
          after == EnvOf(Post(i))
      IN /\ ~Truthy(history[i].arg) =>
              history[i].exc = "" /\ Post(i) = history[i].pre
         /\ (Truthy(history[i].arg) /\ IsMapping(history[i].pre)) =>
              /\ history[i].exc = ""
              /\ DOMAIN after = DOMAIN before \cup DOMAIN given
              /\ \A k \in DOMAIN after :
                    after[k] = IF k \in DOMAIN given THEN given[k]
                               ELSE before[k]
              /\ Prune(Post(i), <<root_key, "EnvironmentVariables">>)
                   = Prune(history[i].pre, <<root_key, "EnvironmentVariables">>)
         /\ (Then(i, "SetTestEnvVars") /\ IsMapping(history[i].pre)) =>
              LET last == history[i + 1].arg
                  final == EnvOf(Post(i + 1))
              IN /\ history[i + 1].exc = ""
                 /\ DOMAIN final =
                      DOMAIN before \cup DOMAIN given \cup KeysOf(last)
                 /\ \A k \in DOMAIN final :
                       final[k] = IF k \in KeysOf(last) THEN last[<<k>>]
                                  ELSE IF k \in DOMAIN given THEN given[k]
                                  ELSE before[k]

C10_Witness ==
  /\ Len(history) = 2
  /\ history[1].op = "SetTestEnvVars" /\ history[2].op = "SetTestEnvVars"
  /\ EnvOf(history[1].pre) = ("B" :> Node("str", <<"1">>))
  /\ history[1].arg = EnvTree("A" :> "1")
  /\ history[2].arg = EnvTree("A" :> "2")
  /\ EnvOf(plist) = ("A" :> Node("str", <<"2">>) @@ "B" :> Node("str", <<"1">>))

\* ------------------------------------------ the callers of the helpers

\* the argument lists a caller passes
ArgLists == {ListVal(<<>>), ListVal(<<"x">>), ListVal(<<"y">>)}

\* the test selections a caller passes; ['all'] stands for every test
Selections == {ListVal(<<>>), ListVal(<<"all">>), ListVal(<<"Class/test">>)}

\* the documents a store with helpers is opened on
HelperBodies ==
  {Graft(EmptyDict, <<"UITargetAppPath">>, Leaf(<<"1">>)),
   Graft(Graft(Graft(EmptyDict,
     <<"UITargetAppPath">>, Leaf(<<"1">>)),
     <<"UITargetAppEnvironmentVariables">>, EnvTree("B" :> "2")),
     <<"CommandLineArguments">>, ListVal(<<"z">>)),
   Graft(Graft(EmptyDict,
     <<"EnvironmentVariables">>, EnvTree("B" :> "2")),
     <<"CommandLineArguments">>, ListVal(<<"z">>))}

\* one call of a helper: what was called, with what, on which document and
\* with which self._test_type, how it ended and what it returned
HelperCall(op, arg, pre, pre_type, exc, ret) ==
  [op |-> op, arg |-> arg, pre |-> pre, pre_type |-> pre_type,
   exc |-> exc, ret |-> ret]

\* XctestRun(xctestrun_file_path, test_type), lines 54-59
HelperInit ==
  /\ \E body \in HelperBodies : plist = RootDoc("MyTests", body)
  /\ root_key \in KeysOf(plist)
  /\ obj_test_type \in {"", XCUITEST, XCTEST}
  /\ history = <<>>
  /\ fs = (<<>> :> Node("dir", <<>>))
  /\ args = <<>>
  /\ phase = "ready"
  /\ ctor_exc = ""
  /\ scope = "direct"
  /\ calls = <<>>
  /\ app_under_test_dir = <<>>
  /\ test_bundle_dir = <<>>
  /\ work_dir = <<>>
  /\ test_root_dir = <<>>
  /\ xctestrun_file_path = <<>>
  /\ xctestrun_obj = 0
  /\ delete_work_dir = FALSE

\* a helper that returned r was called as `op` with `arg`
Helped(op, arg, r) ==
  /\ Len(history) < MaxHelperOps
  /\ plist' = r.ret
  /\ history' = Append(history,
        HelperCall(op, arg, plist, obj_test_type, r.exc, ""))
  /\ UNCHANGED <<root_key, obj_test_type, factoryVars>>

CallSetTestArgs(arguments) ==
  Helped("SetTestArgs", arguments, SetTestArgs(plist, root_key, arguments))

CallSetAppUnderTestEnvVars(env_vars) ==
  Helped("SetAppUnderTestEnvVars", env_vars,
         SetAppUnderTestEnvVars(plist, root_key, obj_test_type, env_vars))

CallSetAppUnderTestArgs(arguments) ==
  Helped("SetAppUnderTestArgs", arguments,
         SetAppUnderTestArgs(plist, root_key, obj_test_type, arguments))

CallSetTestsToRun(tests_to_run) ==
  Helped("SetTestsToRun", tests_to_run,
         SetTestsToRun(plist, root_key, tests_to_run))

CallSetSkipTests(skip_tests) ==
  Helped("SetSkipTests", skip_tests,
         SetSkipTests(plist, root_key, skip_tests))

\* a read of the test_type property
ReadTestType ==
  LET r == test_type(plist, root_key, obj_test_type) IN
  /\ Len(history) < MaxHelperOps
  /\ obj_test_type' = r.type
  /\ history' = Append(history,
        HelperCall("test_type", NoneVal, plist, obj_test_type, "", r.ret))
  /\ UNCHANGED <<plist, root_key, factoryVars>>

\* SetXctestrunField('UITargetAppPath', ...) by the caller
CallSetUITargetAppPath ==
  LET r == SetXctestrunField(plist, root_key, <<"UITargetAppPath">>,
                             Leaf(<<"2">>)) IN
  Helped("Set", Leaf(<<"2">>),
         IF r.exc = "" THEN r ELSE [exc |-> r.exc, ret |-> plist])

\* DeleteXctestrunField('UITargetAppPath') by the caller
CallDeleteUITargetAppPath ==
  LET r == DeleteXctestrunField(plist, root_key, <<"UITargetAppPath">>) IN
  Helped("Delete", NoneVal,
         IF r.exc = "" THEN r ELSE [exc |-> r.exc, ret |-> plist])

HelperNext ==
  \/ \E a \in ArgLists : CallSetTestArgs(a)
  \/ \E e \in {EmptyDict, EnvTree("A" :> "1")} : CallSetAppUnderTestEnvVars(e)
  \/ \E a \in {ListVal(<<>>), ListVal(<<"x">>)} : CallSetAppUnderTestArgs(a)
  \/ \E t \in Selections : CallSetTestsToRun(t)
  \/ \E t \in Selections : CallSetSkipTests(t)
  \/ ReadTestType
  \/ CallSetUITargetAppPath
  \/ CallDeleteUITargetAppPath

HelperSpec == HelperInit /\ [][HelperNext]_vars

\* --------------------------------------------- properties of the helpers

\* the value document d holds in `field` (None when it holds none)
FieldOf(d, field) == GetXctestrunField(d, root_key, field).ret

\* document d without `field`
Without(d, field) ==
  IF Absent(d, field) THEN d ELSE Prune(d, FieldPath(root_key, field))

\* C11: SetTestArgs with a non-empty list raises nothing and leaves in
\* CommandLineArguments exactly the given list, whatever the field held,
\* so that of two calls in a row only the arguments of the later one
\* remain; nothing else of the document changes, and an empty list
\* changes nothing.
C11_TestArgsReplace ==
  \A i \in DOMAIN history :
    history[i].op = "SetTestArgs" =>
      /\ history[i].exc = ""
      /\ ~Truthy(history[i].arg) => Post(i) = history[i].pre
      /\ Truthy(history[i].arg) =>
           /\ FieldOf(Post(i), <<"CommandLineArguments">>) = history[i].arg
           /\ Without(Post(i), <<"CommandLineArguments">>)
                = Without(history[i].pre, <<"CommandLineArguments">>)

C11_Witness ==
  /\ Len(history) = 2
  /\ history[1].op = "SetTestArgs" /\ history[1].arg = ListVal(<<"x">>)
  /\ FieldOf(history[1].pre, <<"CommandLineArguments">>) = ListVal(<<"z">>)
  /\ history[2].op = "SetTestArgs" /\ history[2].arg = ListVal(<<"y">>)
  /\ FieldOf(history[2].pre, <<"CommandLineArguments">>) = ListVal(<<"x">>)
  /\ FieldOf(plist, <<"CommandLineArguments">>) = ListVal(<<"y">>)

\* the mode of the store when call i is made: the one supplied or already
\* inferred, else the one its document gives
ModeAt(i) ==
  IF history[i].pre_type # "" THEN history[i].pre_type
  ELSE IF Absent(history[i].pre, <<"UITargetAppPath">>) THEN XCTEST
  ELSE XCUITEST

\* C12: a read of test_type returns the mode the store was made with when
\* one was given; else the first read returns XCUITEST when the document
\* holds UITargetAppPath and XCTEST when it does not, and every later read
\* returns what the first one returned, whatever was set or deleted in
\* between.
C12_TestTypeMemoized ==
  \A i \in DOMAIN history :
    history[i].op = "test_type" =>
      /\ history[1].pre_type # "" => history[i].ret = history[1].pre_type
      /\ (history[1].pre_type = ""
            /\ \A k \in 1..(i - 1) : history[k].op # "test_type")
           => history[i].ret =
                IF Absent(history[i].pre, <<"UITargetAppPath">>)
                THEN XCTEST ELSE XCUITEST
      /\ \A j \in DOMAIN history :
           (i < j /\ history[j].op = "test_type")
             => history[j].ret = history[i].ret

C12_Witness ==
  /\ Len(history) = 3
  /\ history[1].op = "test_type" /\ history[1].pre_type = ""
  /\ history[1].ret = XCUITEST
  /\ history[2].op = "Delete" /\ history[2].exc = ""
  /\ history[3].op = "test_type" /\ history[3].ret = XCUITEST
  /\ Absent(history[3].pre, <<"UITargetAppPath">>)

\* C13: in UI-driven mode, supplied or inferred, read or not,
\* SetAppUnderTestEnvVars with a non-empty mapping writes
\* UITargetAppEnvironmentVariables and SetAppUnderTestArgs with a
\* non-empty list writes UITargetAppCommandLineArguments, and neither
\* changes EnvironmentVariables or CommandLineArguments; in the other
\* modes they write EnvironmentVariables and CommandLineArguments.
C13_AppUnderTestFields ==
  \A i \in DOMAIN history :
    /\ (history[i].op = "SetAppUnderTestArgs" /\ Truthy(history[i].arg)) =>
         IF ModeAt(i) = XCUITEST
         THEN /\ FieldOf(Post(i), <<"UITargetAppCommandLineArguments">>)
                   = history[i].arg
              /\ FieldOf(Post(i), <<"CommandLineArguments">>)
                   = FieldOf(history[i].pre, <<"CommandLineArguments">>)
         ELSE FieldOf(Post(i), <<"CommandLineArguments">>) = history[i].arg
    /\ (history[i].op = "SetAppUnderTestEnvVars" /\ Truthy(history[i].arg)) =>
         IF ModeAt(i) = XCUITEST
         THEN /\ \A k \in KeysOf(history[i].arg) :
                   FieldOf(Post(i), <<"UITargetAppEnvironmentVariables", k>>)
                     = Subtree(history[i].arg, <<k>>)
              /\ FieldOf(Post(i), <<"EnvironmentVariables">>)
                   = FieldOf(history[i].pre, <<"EnvironmentVariables">>)
         ELSE \A k \in KeysOf(history[i].arg) :
                FieldOf(Post(i), <<"EnvironmentVariables", k>>)
                  = Subtree(history[i].arg, <<k>>)

\* C14: SetTestsToRun and SetSkipTests leave the document as it was for
\* an empty selection and for ['all']; for any other selection they set
\* OnlyTestIdentifiers, respectively SkipTestIdentifiers, to the given
\* list.
C14_SelectionNoOp ==
  \A i \in DOMAIN history :
    history[i].op \in {"SetTestsToRun", "SetSkipTests"} =>
      LET field == IF history[i].op = "SetTestsToRun"
                   THEN <<"OnlyTestIdentifiers">>
                   ELSE <<"SkipTestIdentifiers">>
      IN IF ~Truthy(history[i].arg) \/ history[i].arg = ListVal(<<"all">>)
         THEN Post(i) = history[i].pre
         ELSE FieldOf(Post(i), field) = history[i].arg

\* ------------------------------------------------------- the file system
\* fs is a tree like a document: a path is in its domain when something
\* exists there.  A node is a directory ("dir"), a file ("file") or a
\* symbolic link ("link"); val names the content: <<"app">> and <<"test">>
\* are the bundles given by the caller (a link to the test bundle carries
\* <<"test">> too), <<"stub">> and <<"runner">> come from the build.

RootDir == (<<>> :> Node("dir", <<>>))

Dir(content) == (<<>> :> Node("dir", content))

File(content) == (<<>> :> Node("file", content))

Link(content) == (<<>> :> Node("link", content))

Basename(p) == p[Len(p)]

Dirname(p) == SubSeq(p, 1, Len(p) - 1)

\* os.path.join(p, name)
Join(p, name) == p \o name

\* os.path.exists(p)
Exists(f, p) == p \in DOMAIN f

\* os.path.islink(p)
IsLink(f, p) == p \in DOMAIN f /\ f[p].kind = "link"

\* os.path.isdir(p): a directory, or a link to one
IsDir(f, p) == p \in DOMAIN f /\ f[p].kind \in {"dir", "link"}

FsOk(f) == [exc |-> "", fs |-> f]

FsErr(e, f) == [exc |-> e, fs |-> f]

\* os.mkdir(p)
Mkdir(f, p) ==
  IF p \in DOMAIN f \/ Dirname(p) \notin DOMAIN f
  THEN FsErr("OSError", f)
  ELSE FsOk(Graft(f, p, Dir(<<>>)))

\* shutil.rmtree(p): refuses a symbolic link, a file and a missing path
Rmtree(f, p) ==
  IF p \notin DOMAIN f \/ f[p].kind # "dir"
  THEN FsErr("OSError", f)
  ELSE FsOk(Prune(f, p))

\* shutil.move(src, dst): into dst when dst is a directory, else onto dst
ShutilMove(f, src, dst) ==
  LET real_dst == IF IsDir(f, dst) THEN Join(dst, <<Basename(src)>>) ELSE dst
  IN IF src \notin DOMAIN f THEN FsErr("IOError", f)
     ELSE IF IsDir(f, dst) /\ src = dst THEN FsOk(f)
     ELSE IF IsDir(f, dst) /\ Exists(f, real_dst) THEN FsErr("shutil.Error", f)
     ELSE IF IsPrefix(src, real_dst) THEN FsErr("shutil.Error", f)
     ELSE IF Dirname(real_dst) \notin DOMAIN f THEN FsErr("IOError", f)
     ELSE FsOk(Graft(Prune(f, src), real_dst, Subtree(f, src)))

\* shutil.copytree(src, dst): the tree src names, a link followed, is
\* copied to dst, which must not exist
Copytree(f, src, dst) ==
  IF src \notin DOMAIN f \/ dst \in DOMAIN f
     \/ Dirname(dst) \notin DOMAIN f
  THEN FsErr("OSError", f)
  ELSE FsOk(Graft(f, dst,
              IF f[src].kind = "link" THEN Dir(f[src].val)
              ELSE Subtree(f, src)))

\* _MoveAndReplaceFile(src_file, target_parent_dir): the new path in ret
MoveAndReplaceFile(f, src_file, target_parent_dir) ==
  LET new_file_path == Join(target_parent_dir, <<Basename(src_file)>>)
      cleared == IF Exists(f, new_file_path) THEN Rmtree(f, new_file_path)
                 ELSE FsOk(f)
      moved == ShutilMove(cleared.fs, src_file, new_file_path)
  IN IF cleared.exc # ""
     THEN [exc |-> cleared.exc, fs |-> cleared.fs, ret |-> new_file_path]
     ELSE [exc |-> moved.exc, fs |-> moved.fs, ret |-> new_file_path]

\* ------------------------------------------------ constants and collaborators

TESTROOT_RELATIVE_PATH == "__TESTROOT__"

\* ios_constants.SUPPORTED_SDKS
SUPPORTED_SDKS == {IPHONEOS, IPHONESIMULATOR}

\* ios_constants.SUPPORTED_TEST_TYPES
SUPPORTED_TEST_TYPES == {XCUITEST, XCTEST, LOGIC_TEST}

\* xcode_info_util.GetXctestToolPath(sdk)
GetXctestToolPath == <<"Xcode.app", "Platforms", "Agents", "xctest">>

\* xcode_info_util.GetSdkPlatformPath(sdk)
GetSdkPlatformPath == <<"Xcode.app", "Platforms", "iPhoneSimulator.platform">>

\* tempfile.mkdtemp()
TmpDir == <<"tmp">>

\* the document file has no content when it does not exist
NoDocument == <<>>

\* name.split('.')[0] of the bundle names in use
SplitDot(name) ==
  CASE name = "MyTests.xctest" -> "MyTests"
    [] name = "App.app" -> "App"
    [] OTHER -> name

\* text.replace(pat, rep) on a string kept as its segments
RECURSIVE ReplaceSeq(_, _, _)
ReplaceSeq(text, pat, rep) ==
  IF Len(text) < Len(pat) \/ pat = <<>> THEN text
  ELSE IF SubSeq(text, 1, Len(pat)) = pat
       THEN rep \o ReplaceSeq(SubSeq(text, Len(pat) + 1, Len(text)), pat, rep)
       ELSE <<Head(text)>> \o ReplaceSeq(Tail(text), pat, rep)

\* the replacement made in the text of a serialized document: in every
\* string of it
ReplaceInDoc(d, pat, rep) ==
  [r \in DOMAIN d |->
     IF d[r].kind = "str" THEN Node("str", ReplaceSeq(d[r].val, pat, rep))
     ELSE d[r]]

\* what the build-for-testing step of the dummy project leaves under
\* Build/Products: `runners` runner applications, each with a stub of the
\* test bundle as its plugin, and `docs` *.xctestrun files
RunnerNames == <<"MyTests-Runner.app", "Other-Runner.app">>

XctestrunNames == <<"a.xctestrun", "b.xctestrun">>

DebugDir == "Debug-iphonesimulator"

BuildProducts(runners, docs) ==
  [r \in {<<>>, <<DebugDir>>}
      \cup {<<DebugDir, RunnerNames[i]>> : i \in 1..runners}
      \cup {<<DebugDir, RunnerNames[i], "PlugIns">> : i \in 1..runners}
      \cup {<<DebugDir, RunnerNames[i], "PlugIns", "MyTests.xctest">> :
               i \in 1..runners}
      \cup {<<XctestrunNames[i]>> : i \in 1..docs} |->
     IF Len(r) = 1 /\ r[1] # DebugDir THEN Node("file", <<"xctestrun">>)
     ELSE IF Len(r) = 2 THEN Node("dir", <<"runner">>)
     ELSE IF Len(r) = 4 THEN Node("dir", <<"stub">>)
     ELSE Node("dir", <<>>)]

\* the document build-for-testing generates: paths under the build
\* products directory, which is TEST_ROOT, and the internal bundle name
\* field when has_ide
GeneratedDocument(test_root, has_ide) ==
  LET env == IF has_ide
             THEN Graft(EmptyDict, <<"IDEiPhoneInternalTestBundleName">>,
                        Leaf(<<"MyTests">>))
             ELSE EmptyDict
      body == Graft(Graft(Graft(EmptyDict,
                <<"TestHostPath">>,
                  Leaf(Join(test_root, <<DebugDir, "MyTests-Runner.app">>))),
                <<"DependentProductPaths">>,
                  Leaf(Join(test_root, <<"MyTests.xctest">>))),
                <<"TestingEnvironmentVariables">>, env)
  IN RootDoc("MyTests", body)

\* -------------------------------------------------- class XctestRunFactory
\* A call runs on a record S of the factory's fields, the file system and
\* the document; S.exc is the exception raised so far ("" for none), and a
\* step that follows a raised exception does nothing.  S.ext is what the
\* collaborators decide: the products of the build and the order of a
\* listing.  S.runner is the local xctrunner_app_dir.

Fail(S, e) == [S EXCEPT !.exc = e]

AndThen(S, Op(_)) == IF S.exc # "" THEN S ELSE Op(S)

\* the outcome r of a file-system call, taken into S as one bundle mutation
WithFs(S, r) ==
  [S EXCEPT !.fs = r.fs, !.exc = r.exc,
            !.moves = IF r.fs # S.fs THEN @ + 1 ELSE @]

\* lines 305-310: the caller's work_dir, made if absent, or a private
\* temporary directory
EstablishWorkDir(S) ==
  IF S.work_dir # <<>>
  THEN IF ~Exists(S.fs, S.work_dir)
       THEN LET mk == Mkdir(S.fs, S.work_dir) IN
            [S EXCEPT !.fs = mk.fs, !.exc = mk.exc]
       ELSE S
  ELSE [S EXCEPT !.work_dir = TmpDir,
                 !.fs = Graft(S.fs, TmpDir, Dir(<<>>)),
                 !.delete_work_dir = TRUE]

\* lines 311-313
EstablishTestRoot(S) ==
  LET root == Join(S.work_dir, <<"TEST_ROOT">>)
      S1 == [S EXCEPT !.test_root_dir = root]
  IN IF ~Exists(S.fs, root)
     THEN LET mk == Mkdir(S.fs, root) IN
          [S1 EXCEPT !.fs = mk.fs, !.exc = mk.exc]
     ELSE S1

\* the bundle that was at src when _MoveAndReplaceFile was called is not
\* at the new path when the call, whose outcome is mv, is over
Lost(f, src, mv) ==
  /\ Exists(f, src)
  /\ ~(Exists(mv.fs, mv.ret) /\ mv.fs[mv.ret].val = f[src].val)

\* the outcome mv of relocating the bundle at src, taken into S
Relocated(S, src, mv) ==
  [WithFs(S, mv) EXCEPT
     !.relocations = @ + 1,
     !.lost = IF Lost(S.fs, src, mv) THEN @ + 1 ELSE @]

\* lines 319-321
RelocateApp(S) ==
  IF S.app # <<>>
  THEN LET mv == MoveAndReplaceFile(S.fs, S.app, S.test_root_dir) IN
       IF mv.exc # "" THEN Relocated(S, S.app, mv)
       ELSE [Relocated(S, S.app, mv) EXCEPT !.app = mv.ret]
  ELSE S

\* lines 322-323
RelocateTestBundle(S) ==
  LET mv == MoveAndReplaceFile(S.fs, S.tb, S.test_root_dir) IN
  IF mv.exc # "" THEN Relocated(S, S.tb, mv)
  ELSE [Relocated(S, S.tb, mv) EXCEPT !.tb = mv.ret]

DerivedDataDir(S) == Join(S.work_dir, <<"dummyproject_derived_data">>)

ProductsDir(S) == Join(DerivedDataDir(S), <<"Build", "Products">>)

\* DummyProject(...).BuildForTesting(test_root_dir, derived_data_dir)
BuildForTesting(S) ==
  LET dd == DerivedDataDir(S)
      tree == Graft(Graft(Dir(<<>>), <<"Build">>, Dir(<<>>)),
                    <<"Build", "Products">>,
                    BuildProducts(S.ext.runners, S.ext.docs))
  IN [S EXCEPT !.fs = Graft(S.fs, dd, tree), !.builds = @ + 1]

\* glob.glob('%s/Debug-*/*-Runner.app' % derived_data_build_products_dir)
GlobRunners(f, products) ==
  {q \in DOMAIN f : \E i \in DOMAIN RunnerNames :
                      q = Join(products, <<DebugDir, RunnerNames[i]>>)}

\* glob.glob('%s/*.xctestrun' % derived_data_build_products_dir)
GlobXctestruns(f, products) ==
  {q \in DOMAIN f : \E i \in DOMAIN XctestrunNames :
                      q = Join(products, <<XctestrunNames[i]>>)}

\* the first element of a listing of `found`, in the order S.ext.pick names
First(S, found) ==
  LET one == CHOOSE x \in found : TRUE IN
  IF S.ext.pick = 2 /\ found # {one}
  THEN CHOOSE x \in found \ {one} : TRUE
  ELSE one

\* lines 401-413: exactly one runner application, moved into TEST_ROOT
HarvestRunner(S) ==
  LET found == GlobRunners(S.fs, ProductsDir(S))
      S1 == [S EXCEPT !.runners = Cardinality(found)]
  IN IF found = {} THEN Fail(S1, "XctestrunError")
     ELSE IF Cardinality(found) > 1 THEN Fail(S1, "XctestrunError")
     ELSE LET generated == First(S1, found)
              xctrunner_app_dir ==
                Join(S.test_root_dir, <<Basename(generated)>>)
          IN [WithFs(S1, ShutilMove(S1.fs, generated, xctrunner_app_dir))
                EXCEPT !.runner = xctrunner_app_dir]

\* a mutant: the bundle is put into the plugin slot, but the path kept is
\* the one it had before
ReplacePlugin_OldPath(S) ==
  LET xctrunner_plugins_dir == Join(S.runner, <<"PlugIns">>)
      rm == IF Exists(S.fs, xctrunner_plugins_dir)
            THEN Rmtree(S.fs, xctrunner_plugins_dir) ELSE FsOk(S.fs)
      mk == Mkdir(rm.fs, xctrunner_plugins_dir)
  IN IF rm.exc # "" THEN WithFs(S, rm)
     ELSE IF mk.exc # "" THEN WithFs(S, mk)
     ELSE IF IsLink(mk.fs, S.tb)
     THEN WithFs(S, Copytree(mk.fs, S.tb,
                             Join(xctrunner_plugins_dir, <<Basename(S.tb)>>)))
     ELSE WithFs(S, MoveAndReplaceFile(mk.fs, S.tb, xctrunner_plugins_dir))

\* lines 423-437: the real test bundle replaces the stub plugin
ReplacePlugin(S) ==
  LET xctrunner_plugins_dir == Join(S.runner, <<"PlugIns">>)
      rm == IF Exists(S.fs, xctrunner_plugins_dir)
            THEN Rmtree(S.fs, xctrunner_plugins_dir) ELSE FsOk(S.fs)
      mk == Mkdir(rm.fs, xctrunner_plugins_dir)
  IN IF rm.exc # "" THEN WithFs(S, rm)
     ELSE IF mk.exc # "" THEN WithFs(S, mk)
     ELSE IF IsLink(mk.fs, S.tb)
     THEN LET new_test_bundle_path ==
                Join(xctrunner_plugins_dir, <<Basename(S.tb)>>)
              cp == Copytree(mk.fs, S.tb, new_test_bundle_path)
          IN IF cp.exc # "" THEN WithFs(S, cp)
             ELSE [WithFs(S, cp) EXCEPT !.tb = new_test_bundle_path]
     ELSE LET mv == MoveAndReplaceFile(mk.fs, S.tb, xctrunner_plugins_dir)
          IN IF mv.exc # "" THEN WithFs(S, mv)
             ELSE [WithFs(S, mv) EXCEPT !.tb = mv.ret]

\* lines 439-448 and 505-514: the generated document, moved to
\* TEST_ROOT/xctestrun.plist
HarvestDocument(S) ==
  LET found == GlobXctestruns(S.fs, ProductsDir(S))
      S1 == [S EXCEPT !.docs = Cardinality(found)]
  IN IF found = {} THEN Fail(S1, "XctestrunError")
     ELSE LET path == Join(S.test_root_dir, <<"xctestrun.plist">>)
              mv == ShutilMove(S1.fs, First(S1, found), path)
          IN [S1 EXCEPT !.file_path = path, !.fs = mv.fs, !.exc = mv.exc,
                        !.plist = IF mv.exc = ""
                                 THEN GeneratedDocument(S.test_root_dir,
                                                        S.ext.has_ide)
                                 ELSE @]

\* XctestRun(self._xctestrun_file_path, self._test_type), lines 54-59:
\* the root key is the first key of the document's root mapping
NewXctestRun(S) ==
  IF ~Exists(S.fs, S.file_path) THEN Fail(S, "IOError")
  ELSE IF KeysOf(S.plist) = {} THEN Fail(S, "IndexError")
  ELSE [S EXCEPT !.root_key = First(S, KeysOf(S.plist)),
          !.obj_test_type = S.test_type, !.obj = S.next_obj]

\* self._xctestrun_obj.SetXctestrunField(field, value)
PatchField(S, field, value) ==
  LET r == SetXctestrunField(S.plist, S.root_key, field, value) IN
  IF r.exc # "" THEN Fail(S, r.exc)
  ELSE [S EXCEPT !.plist = r.ret, !.writes = @ + 1]

\* the same with a path, which may be None: None cannot be serialized
PatchPath(S, field, path) ==
  IF path = <<>> THEN Fail(S, "TypeError")
  ELSE PatchField(S, field, Leaf(path))

\* lines 460-461
DeleteBundleName(S) ==
  LET r == DeleteXctestrunField(S.plist, S.root_key,
             <<"TestingEnvironmentVariables",
               "IDEiPhoneInternalTestBundleName">>) IN
  IF r.exc # "" THEN Fail(S, r.exc)
  ELSE [S EXCEPT !.plist = r.ret, !.writes = @ + 1]

PatchTestHostRunner(S) == PatchPath(S, <<"TestHostPath">>, S.runner)

PatchUITargetApp(S) == PatchPath(S, <<"UITargetAppPath">>, S.app)

PatchTestBundle(S) == PatchPath(S, <<"TestBundlePath">>, S.tb)

\* _GenerateXctestrunFileForXcuitest, lines 366-461
GenerateXctestrunFileForXcuitest(S) ==
  AndThen(AndThen(AndThen(AndThen(AndThen(AndThen(AndThen(AndThen(
    BuildForTesting(S),
    HarvestRunner), ReplacePlugin), HarvestDocument), NewXctestRun),
    PatchTestHostRunner), PatchUITargetApp), PatchTestBundle),
    DeleteBundleName)

\* lines 479-492: the test bundle becomes a plugin of the app under test
PlaceInApp(S) ==
  IF S.app = <<>> THEN Fail(S, "TypeError")
  ELSE
  LET app_under_test_plugins_dir == Join(S.app, <<"PlugIns">>)
      mk == IF ~Exists(S.fs, app_under_test_plugins_dir)
            THEN Mkdir(S.fs, app_under_test_plugins_dir) ELSE FsOk(S.fs)
      new_test_bundle_path ==
        Join(app_under_test_plugins_dir, <<Basename(S.tb)>>)
  IN IF mk.exc # "" THEN WithFs(S, mk)
     ELSE IF IsLink(mk.fs, S.tb)
     THEN LET cp == Copytree(mk.fs, S.tb, new_test_bundle_path) IN
          IF cp.exc # "" THEN WithFs(S, cp)
          ELSE [WithFs(S, cp) EXCEPT !.tb = new_test_bundle_path]
     ELSE IF new_test_bundle_path # S.tb
     THEN LET mv == MoveAndReplaceFile(mk.fs, S.tb,
                                       app_under_test_plugins_dir) IN
          IF mv.exc # "" THEN WithFs(S, mv)
          ELSE [WithFs(S, mv) EXCEPT !.tb = mv.ret]
     ELSE WithFs(S, mk)

\* _GenerateXctestrunFileForXctest, lines 463-518
GenerateXctestrunFileForXctest(S) ==
  AndThen(AndThen(AndThen(AndThen(
    BuildForTesting(S),
    PlaceInApp), HarvestDocument), NewXctestRun), PatchTestBundle)

\* lines 526-530: plist_util.Plist(path).SetPlistField(test_bundle_name, {})
\* on the file's root mapping, an empty one when there is no file
CreateDocument(S) ==
  LET path == Join(S.test_root_dir, <<"xctestrun.plist">>)
      test_bundle_name == SplitDot(Basename(S.tb))
      root == IF Exists(S.fs, path) THEN S.plist ELSE EmptyDict
      r == SetPlistField(root, <<test_bundle_name>>, EmptyDict)
  IN IF r.exc # "" THEN [S EXCEPT !.file_path = path, !.exc = r.exc]
     ELSE [S EXCEPT !.file_path = path, !.plist = r.ret,
                    !.fs = Graft(S.fs, path, File(<<"xctestrun">>)),
                    !.writes = @ + 1]

PatchTestHostTool(S) == PatchPath(S, <<"TestHostPath">>, GetXctestToolPath)

\* lines 537-543
PatchDyldPaths(S) ==
  LET dyld_framework_path ==
        Join(GetSdkPlatformPath, <<"Developer", "Library", "Frameworks">>)
  IN PatchField(S, <<"TestingEnvironmentVariables">>,
       Graft(Graft(EmptyDict, <<"DYLD_FRAMEWORK_PATH">>,
                   Leaf(dyld_framework_path)),
             <<"DYLD_LIBRARY_PATH">>, Leaf(dyld_framework_path)))

\* _GenerateXctestrunFileForLogicTest, lines 520-543
GenerateXctestrunFileForLogicTest(S) ==
  AndThen(AndThen(AndThen(AndThen(
    CreateDocument(S),
    NewXctestRun), PatchTestBundle), PatchTestHostTool), PatchDyldPaths)

\* lines 324-329
Dispatch(S) ==
  CASE S.test_type = XCUITEST -> GenerateXctestrunFileForXcuitest(S)
    [] S.test_type = XCTEST -> GenerateXctestrunFileForXctest(S)
    [] S.test_type = LOGIC_TEST -> GenerateXctestrunFileForLogicTest(S)
    [] OTHER -> S

\* lines 333-338: the text of the document with the TEST_ROOT path
\* replaced by the placeholder
RewriteTestRoot(S) ==
  IF S.file_path = <<>> THEN Fail(S, "TypeError")
  ELSE IF ~Exists(S.fs, S.file_path) THEN Fail(S, "IOError")
  ELSE [S EXCEPT !.plist = ReplaceInDoc(S.plist, S.test_root_dir,
                                        <<TESTROOT_RELATIVE_PATH>>),
                 !.writes = @ + 1]

\* a mutant: a store made earlier is not returned, the work is done again
GenerateXctestrun_Again(S) ==
  AndThen(AndThen(AndThen(AndThen(AndThen(
    EstablishWorkDir(S),
    EstablishTestRoot), RelocateApp), RelocateTestBundle), Dispatch),
    RewriteTestRoot)

\* GenerateXctestrun, lines 292-339; the call returns S.obj unless S.exc
GenerateXctestrun(S) ==
  IF S.obj # 0 THEN S
  ELSE AndThen(AndThen(AndThen(AndThen(AndThen(
         EstablishWorkDir(S),
         EstablishTestRoot), RelocateApp), RelocateTestBundle), Dispatch),
         RewriteTestRoot)

\* a mutant: the working directory is removed whoever made it
Close_AnyWorkDir(S) ==
  IF S.work_dir # <<>> /\ Exists(S.fs, S.work_dir)
  THEN LET rm == Rmtree(S.fs, S.work_dir) IN
       [S EXCEPT !.fs = rm.fs, !.exc = rm.exc,
                 !.plist = IF rm.exc = "" THEN NoDocument ELSE @,
                 !.deleted = IF rm.exc = "" THEN @ + 1 ELSE @]
  ELSE S

\* a mutant: the directory is removed without looking for it first
Close_NoExistsCheck(S) ==
  IF S.delete_work_dir
  THEN LET rm == Rmtree(S.fs, S.work_dir) IN
       [S EXCEPT !.fs = rm.fs, !.exc = rm.exc,
                 !.plist = IF rm.exc = "" THEN NoDocument ELSE @,
                 !.deleted = IF rm.exc = "" THEN @ + 1 ELSE @]
  ELSE S

\* Close, lines 341-344
Close(S) ==
  IF S.delete_work_dir /\ Exists(S.fs, S.work_dir)
  THEN LET rm == Rmtree(S.fs, S.work_dir) IN
       [S EXCEPT !.fs = rm.fs, !.exc = rm.exc,
                 !.plist = IF rm.exc = "" THEN NoDocument ELSE @,
                 !.deleted = IF rm.exc = "" THEN @ + 1 ELSE @]
  ELSE S

\* a mutant: logic tests are accepted on any supported sdk
ValidateArguments_AnySdk(sdk, type) ==
  IF sdk \notin SUPPORTED_SDKS THEN "IllegalArgumentError"
  ELSE IF type \notin SUPPORTED_TEST_TYPES THEN "IllegalArgumentError"
  ELSE ""

\* _ValidateArguments, lines 346-364: the exception raised, "" for none
ValidateArguments(sdk, type) ==
  IF sdk \notin SUPPORTED_SDKS THEN "IllegalArgumentError"
  ELSE IF type \notin SUPPORTED_TEST_TYPES THEN "IllegalArgumentError"
  ELSE IF type = LOGIC_TEST /\ sdk # IPHONESIMULATOR
       THEN "IllegalArgumentError"
  ELSE ""

\* ------------------------------------------------- the factory's callers

AppSource == <<"in", "App.app">>

TestBundleSource == <<"in", "MyTests.xctest">>

SuppliedWorkDir == <<"work">>

\* a test bundle the caller has put into the TEST_ROOT of the work_dir
PlacedTestBundle == <<"work", "TEST_ROOT", "MyTests.xctest">>

\* the document an earlier generation for the bundle OldTests.xctest left
\* in the TEST_ROOT of the work_dir
StaleDocument ==
  RootDoc("OldTests",
          Graft(EmptyDict, <<"TestBundlePath">>,
                Leaf(<<TESTROOT_RELATIVE_PATH, "OldTests.xctest">>)))

\* the arguments of XctestRunFactory(...) and the state of the disk: the
\* test bundle is a directory or a symbolic link to one, a supplied
\* work_dir exists or not and may hold what an earlier generation left
\* (stale: a document and an old entry named as the test bundle), and the
\* test bundle may lie in its TEST_ROOT already; Init gives the two pipelines that build the
\* dummy project, which refers to the app under test, an app under test
ArgSets ==
  [app_under_test_dir : {<<>>, AppSource},
   test_bundle_dir : {TestBundleSource, PlacedTestBundle},
   bundle_kind : {"dir", "link"},
   sdk : {IPHONESIMULATOR, IPHONEOS, "macosx"},
   test_type : {XCUITEST, XCTEST, LOGIC_TEST, "ui_test"},
   work_dir : {<<>>, SuppliedWorkDir},
   work_dir_exists : BOOLEAN,
   stale : BOOLEAN]

InitialFs(a) ==
  LET f0 == Graft(RootDir, <<"in">>, Dir(<<>>))
      f1 == IF a.app_under_test_dir # <<>>
            THEN Graft(f0, a.app_under_test_dir, Dir(<<"app">>)) ELSE f0
      f2 == IF a.work_dir # <<>> /\ a.work_dir_exists
            THEN Graft(f1, a.work_dir, Dir(<<>>)) ELSE f1
      root == Join(SuppliedWorkDir, <<"TEST_ROOT">>)
      f3 == IF a.stale \/ a.test_bundle_dir = PlacedTestBundle
            THEN Graft(f2, root, Dir(<<>>)) ELSE f2
      f4 == IF a.stale
            THEN Graft(Graft(f3, Join(root, <<"xctestrun.plist">>),
                             File(<<"xctestrun">>)),
                       Join(root, <<"MyTests.xctest">>), Dir(<<"old">>))
            ELSE f3
  IN Graft(f4, a.test_bundle_dir,
           IF a.bundle_kind = "link" THEN Link(<<"test">>)
           ELSE Dir(<<"test">>))

\* the content of TEST_ROOT/xctestrun.plist before the factory is made
InitialDocument(a) == IF a.stale THEN StaleDocument ELSE NoDocument

\* what the collaborators may decide during one GenerateXctestrun
Exts ==
  {e \in [runners : 0..2, docs : 0..2, pick : 1..2, has_ide : BOOLEAN] :
     /\ e.docs < 2 => e.pick = 1
     /\ e.docs = 0 => ~e.has_ide}

\* for a call that asks the collaborators nothing
NoExt == [runners |-> 0, docs |-> 0, pick |-> 1, has_ide |-> FALSE]

\* one call of a factory method: how it ended, the store it returned (0
\* for none) and the work it did
FactoryCall(op, S) ==
  [op |-> op, exc |-> S.exc,
   ret |-> IF op = "GenerateXctestrun" /\ S.exc = "" THEN S.obj ELSE 0,
   moves |-> S.moves, builds |-> S.builds, writes |-> S.writes,
   deleted |-> S.deleted, runners |-> S.runners, docs |-> S.docs,
   relocations |-> S.relocations, lost |-> S.lost,
   changed |-> (S.fs # fs \/ S.plist # plist)]

\* the factory as a call finds it
Current(ext) ==
  [fs |-> fs, plist |-> plist, root_key |-> root_key,
   obj_test_type |-> obj_test_type,
   app |-> app_under_test_dir, tb |-> test_bundle_dir,
   work_dir |-> work_dir, test_root_dir |-> test_root_dir,
   file_path |-> xctestrun_file_path, obj |-> xctestrun_obj,
   delete_work_dir |-> delete_work_dir,
   test_type |-> args.test_type, next_obj |-> Len(calls) + 1,
   exc |-> "", moves |-> 0, builds |-> 0, writes |-> 0, deleted |-> 0,
   relocations |-> 0, lost |-> 0,
   runners |-> -1, docs |-> -1, runner |-> <<>>, ext |-> ext]

\* the factory as a call leaves it
Commit(op, S) ==
  /\ fs' = S.fs
  /\ plist' = S.plist
  /\ root_key' = S.root_key
  /\ obj_test_type' = S.obj_test_type
  /\ app_under_test_dir' = S.app
  /\ test_bundle_dir' = S.tb
  /\ work_dir' = S.work_dir
  /\ test_root_dir' = S.test_root_dir
  /\ xctestrun_file_path' = S.file_path
  /\ xctestrun_obj' = S.obj
  /\ delete_work_dir' = S.delete_work_dir
  /\ calls' = Append(calls, FactoryCall(op, S))

Init ==
  /\ args \in ArgSets
  /\ args.work_dir = <<>> => args.work_dir_exists = FALSE
  /\ args.test_type \in {XCUITEST, XCTEST} => args.app_under_test_dir # <<>>
  /\ (args.stale \/ args.test_bundle_dir = PlacedTestBundle)
       => args.work_dir = SuppliedWorkDir /\ args.work_dir_exists
  /\ fs = InitialFs(args)
  /\ plist = InitialDocument(args)
  /\ root_key = ""
  /\ history = <<>>
  /\ obj_test_type = ""
  /\ phase = "new"
  /\ ctor_exc = ""
  /\ scope \in {"direct", "with"}
  /\ calls = <<>>
  /\ app_under_test_dir = <<>>
  /\ test_bundle_dir = <<>>
  /\ work_dir = <<>>
  /\ test_root_dir = <<>>
  /\ xctestrun_file_path = <<>>
  /\ xctestrun_obj = 0
  /\ delete_work_dir = FALSE

\* XctestRunFactory.__init__, lines 265-283
Construct ==
  /\ phase = "new"
  /\ app_under_test_dir' = args.app_under_test_dir
  /\ test_bundle_dir' = args.test_bundle_dir
  /\ work_dir' = args.work_dir
  /\ test_root_dir' = <<>>
  /\ xctestrun_file_path' = <<>>
  /\ xctestrun_obj' = 0
  /\ delete_work_dir' = FALSE
  /\ ctor_exc' = ValidateArguments(args.sdk, args.test_type)
  /\ phase' = IF ctor_exc' = "" THEN "ready" ELSE "ctor_failed"
  /\ UNCHANGED <<fs, args, scope, calls, storeVars>>

\* a call of GenerateXctestrun()
CallGenerateXctestrun ==
  /\ phase = "ready" /\ scope = "direct" /\ Len(calls) < MaxCalls
  /\ \E ext \in Exts :
       Commit("GenerateXctestrun", GenerateXctestrun(Current(ext)))
  /\ UNCHANGED <<args, phase, ctor_exc, scope, history>>

\* a call of Close()
CallClose ==
  /\ phase = "ready" /\ scope = "direct" /\ Len(calls) < MaxCalls
  /\ Commit("Close", Close(Current(NoExt)))
  /\ UNCHANGED <<args, phase, ctor_exc, scope, history>>

\* __enter__, lines 285-286, in a with statement: when it raises, the
\* statement is left and __exit__ is not called
Enter ==
  /\ phase = "ready" /\ scope = "with"
  /\ \E ext \in Exts :
       LET S == GenerateXctestrun(Current(ext)) IN
       /\ Commit("GenerateXctestrun", S)
       /\ scope' = IF S.exc = "" THEN "with_body" ELSE "with_raised"
  /\ UNCHANGED <<args, phase, ctor_exc, history>>

\* __exit__, lines 288-290, at the end of the body of the with statement
Exit ==
  /\ phase = "ready" /\ scope = "with_body"
  /\ Commit("Close", Close(Current(NoExt)))
  /\ scope' = "with_done"
  /\ UNCHANGED <<args, phase, ctor_exc, history>>

Next ==
  \/ Construct
  \/ CallGenerateXctestrun
  \/ CallClose
  \/ Enter
  \/ Exit

Spec == Init /\ [][Next]_vars

\* ---------------------------------------------- properties of the factory

LastCall == calls[Len(calls)]

\* pat occurs in text
Occurs(pat, text) ==
  \E i \in 1..(Len(text) - Len(pat) + 1) :
    SubSeq(text, i, i + Len(pat) - 1) = pat

\* no string of document d holds a path under the working root
Portable(d) ==
  \A r \in DOMAIN d : d[r].kind = "str" => ~Occurs(work_dir, d[r].val)

\* the path p, which lies under TEST_ROOT, written with the placeholder
Placeholder(p) == <<TESTROOT_RELATIVE_PATH>> \o Suffix(test_root_dir, p)

\* C1: when GenerateXctestrun() has returned a store, no string of the
\* document holds a path under the working root, and the recorded test
\* bundle path starts with the __TESTROOT__ placeholder.
C1_PortableDocument ==
  (calls # <<>> /\ LastCall.op = "GenerateXctestrun" /\ LastCall.ret # 0
     /\ Exists(fs, xctestrun_file_path))
    => /\ Portable(plist)
       /\ GetXctestrunField(plist, root_key, <<"TestBundlePath">>).ret
            = Leaf(Placeholder(test_bundle_dir))

\* C2: once a call of GenerateXctestrun() has returned a store, every
\* later call returns that store, raises nothing, and does no work: no
\* file-system mutation, no build, no write of the document.
C2_Idempotent ==
  \A i \in DOMAIN calls : \A j \in DOMAIN calls :
    (i < j /\ calls[i].op = "GenerateXctestrun" /\ calls[i].ret # 0
       /\ calls[j].op = "GenerateXctestrun")
      => /\ calls[j].exc = ""
         /\ calls[j].ret = calls[i].ret
         /\ calls[j].moves = 0 /\ calls[j].builds = 0
         /\ calls[j].writes = 0 /\ ~calls[j].changed

C2_Witness ==
  /\ Len(calls) = 3
  /\ \A i \in 1..3 : calls[i].op = "GenerateXctestrun" /\ calls[i].ret = 1
  /\ calls[1].builds = 1 /\ calls[1].moves > 0 /\ calls[1].writes > 0
  /\ ~calls[3].changed

\* the number of times the working directory has been deleted
RECURSIVE Deletions(_)
Deletions(n) == IF n = 0 THEN 0 ELSE calls[n].deleted + Deletions(n - 1)

\* C3: when a with statement over a factory that made a private temporary
\* working directory has been left, by the end of its body or by
\* __enter__ raising, that directory has been deleted, once.
C3_ScopedRelease ==
  (scope \in {"with_done", "with_raised"} /\ delete_work_dir)
    => ~Exists(fs, TmpDir) /\ Deletions(Len(calls)) = 1

\* C4: Close() raises nothing and leaves no temporary working directory,
\* whatever was called before it: nothing, a GenerateXctestrun() that
\* raised or returned, or another Close().
C4_CloseIsSafe ==
  /\ \A i \in DOMAIN calls : calls[i].op = "Close" => calls[i].exc = ""
  /\ (calls # <<>> /\ LastCall.op = "Close") => ~Exists(fs, TmpDir)

C4_Witness ==
  /\ Len(calls) = 3
  /\ calls[1].op = "GenerateXctestrun" /\ calls[1].exc = "XctestrunError"
  /\ calls[2].op = "Close" /\ calls[2].deleted = 1
  /\ calls[3].op = "Close" /\ calls[3].deleted = 0
  /\ delete_work_dir /\ work_dir = TmpDir

\* C5: constructing a factory for LOGIC_TEST with an sdk other than
\* iphonesimulator raises IllegalArgumentError, and the file system is as
\* it was: no directory made, no bundle moved, no document written.
C5_LogicTestNeedsSimulator ==
  (phase # "new" /\ args.test_type = LOGIC_TEST
     /\ args.sdk # IPHONESIMULATOR)
    => /\ phase = "ctor_failed"
       /\ ctor_exc = "IllegalArgumentError"
       /\ fs = InitialFs(args)
       /\ plist = InitialDocument(args)
       /\ calls = <<>>

C5_Witness ==
  /\ phase = "ctor_failed"
  /\ args.test_type = LOGIC_TEST /\ args.sdk = IPHONEOS
  /\ fs = InitialFs(args)

\* C6: a GenerateXctestrun() whose scan finds a number of runner
\* applications, or of generated documents, other than one raises
\* XctestrunError and returns no store.
C6_ExactlyOneMatch ==
  \A i \in DOMAIN calls :
    (calls[i].op = "GenerateXctestrun"
       /\ (calls[i].runners \notin {-1, 1} \/ calls[i].docs \notin {-1, 1}))
      => calls[i].exc = "XctestrunError" /\ calls[i].ret = 0

\* the last call was a GenerateXctestrun() that ran the pipeline to its
\* end and returned the store
Generated ==
  /\ calls # <<>>
  /\ LastCall.op = "GenerateXctestrun"
  /\ LastCall.ret # 0
  /\ LastCall.writes > 0

\* the path a string of the document names, the placeholder resolved
Resolve(v) ==
  IF v[<<>>].kind = "str" /\ v[<<>>].val # <<>>
     /\ Head(v[<<>>].val) = TESTROOT_RELATIVE_PATH
  THEN test_root_dir \o Tail(v[<<>>].val)
  ELSE v[<<>>].val

\* the document records in `field` the path p, which holds `content`
Records(field, p, content) ==
  /\ FieldOf(plist, field) = Leaf(Placeholder(p))
  /\ Resolve(FieldOf(plist, field)) = p
  /\ Exists(fs, p)
  /\ fs[p].val = content

\* C15: a generation for LOGIC_TEST with no app under test and the bundle
\* MyTests.xctest runs no build and leaves a store whose root key is
\* MyTests, whose TestBundlePath is the bundle relocated to
\* TEST_ROOT/MyTests.xctest, whose TestHostPath is the xctest tool and
\* whose TestingEnvironmentVariables holds DYLD_FRAMEWORK_PATH and
\* DYLD_LIBRARY_PATH, both the Developer/Library/Frameworks directory of
\* the sdk platform.
C15_LogicTestDocument ==
  (Generated /\ args.test_type = LOGIC_TEST
     /\ args.app_under_test_dir = <<>>)
    => LET frameworks ==
             Join(GetSdkPlatformPath, <<"Developer", "Library", "Frameworks">>)
       IN /\ LastCall.builds = 0
          /\ root_key = "MyTests"
          /\ Records(<<"TestBundlePath">>,
                     Join(test_root_dir, <<"MyTests.xctest">>), <<"test">>)
          /\ FieldOf(plist, <<"TestHostPath">>) = Leaf(GetXctestToolPath)
          /\ FieldOf(plist, <<"TestingEnvironmentVariables",
                              "DYLD_FRAMEWORK_PATH">>) = Leaf(frameworks)
          /\ FieldOf(plist, <<"TestingEnvironmentVariables",
                              "DYLD_LIBRARY_PATH">>) = Leaf(frameworks)

\* C16: at the end of a generation that returned, TestBundlePath records
\* the path the factory keeps for the test bundle, the bundle is there,
\* and that path is <runner>/PlugIns/<bundle> for XCUITEST,
\* <app>/PlugIns/<bundle> for XCTEST and TEST_ROOT/<bundle> for
\* LOGIC_TEST; for XCUITEST, TestHostPath records the runner application
\* in TEST_ROOT, UITargetAppPath the app under test in TEST_ROOT, and
\* TestingEnvironmentVariables:IDEiPhoneInternalTestBundleName is absent.
C16_TestBundleWhereRecorded ==
  Generated =>
    LET runner == Join(test_root_dir, <<"MyTests-Runner.app">>)
        app == Join(test_root_dir, <<"App.app">>)
    IN /\ Records(<<"TestBundlePath">>, test_bundle_dir, <<"test">>)
       /\ args.test_type = XCUITEST =>
            /\ test_bundle_dir = Join(runner, <<"PlugIns", "MyTests.xctest">>)
            /\ Records(<<"TestHostPath">>, runner, <<"runner">>)
            /\ app_under_test_dir = app
            /\ Records(<<"UITargetAppPath">>, app, <<"app">>)
            /\ Absent(plist, <<"TestingEnvironmentVariables",
                               "IDEiPhoneInternalTestBundleName">>)
       /\ args.test_type = XCTEST =>
            /\ app_under_test_dir = app
            /\ test_bundle_dir = Join(app, <<"PlugIns", "MyTests.xctest">>)
       /\ args.test_type = LOGIC_TEST =>
            test_bundle_dir = Join(test_root_dir, <<"MyTests.xctest">>)

C16_Witness ==
  /\ Generated
  /\ args.test_type = XCUITEST
  /\ args.bundle_kind = "dir"
  /\ args.stale
  /\ FieldOf(plist, <<"TestBundlePath">>) =
       Leaf(<<TESTROOT_RELATIVE_PATH, "MyTests-Runner.app", "PlugIns",
              "MyTests.xctest">>)
  /\ fs[test_bundle_dir] = Node("dir", <<"test">>)

\* C17: at the end of a generation that returned, in any of the three
\* modes, the entry TestBundlePath records is not a symbolic link.
C17_NeverSymlink ==
  Generated =>
    /\ Resolve(FieldOf(plist, <<"TestBundlePath">>)) = test_bundle_dir
    /\ ~IsLink(fs, test_bundle_dir)

\* C18: at the end of a generation that returned, the document at
\* TEST_ROOT/xctestrun.plist has one root key, and it is the root key of
\* the returned store, whatever the work_dir held before.
C18_SingleRootKey ==
  Generated =>
    /\ xctestrun_file_path = Join(test_root_dir, <<"xctestrun.plist">>)
    /\ Exists(fs, xctestrun_file_path)
    /\ KeysOf(plist) = {root_key}

\* C19: a Close() deletes a directory only when an earlier
\* GenerateXctestrun() made it as the private temporary directory; given a
\* work_dir by the caller, no Close() changes anything on disk, whatever
\* calls came before it.
C19_CloseKeepsSuppliedWorkDir ==
  \A i \in DOMAIN calls :
    calls[i].op = "Close" =>
      /\ calls[i].changed => calls[i].deleted = 1
      /\ calls[i].deleted = 1 =>
           /\ args.work_dir = <<>>
           /\ work_dir = TmpDir
           /\ \E j \in 1..(i - 1) : calls[j].op = "GenerateXctestrun"
      /\ args.work_dir # <<>> => ~calls[i].changed /\ calls[i].deleted = 0

C19_Witness ==
  /\ Len(calls) = 2
  /\ calls[1].op = "GenerateXctestrun" /\ calls[1].ret # 0
  /\ calls[2].op = "Close" /\ ~calls[2].changed
  /\ args.work_dir = SuppliedWorkDir
  /\ Exists(fs, xctestrun_file_path)
  /\ Exists(fs, test_bundle_dir)
  /\ plist # NoDocument

\* C20: no relocation by _MoveAndReplaceFile loses a bundle: the bundle
\* that was at the source when the call began is at TEST_ROOT/<basename>
\* when the call is over.
C20_RelocationKeepsBundle ==
  \A i \in DOMAIN calls : calls[i].lost = 0

\* C21: every store a GenerateXctestrun() returns is one whose generation
\* was completed: some call, this one or an earlier one, ran the whole
\* pipeline for it, the patches and the __TESTROOT__ rewriting included,
\* and returned it without raising.
C21_OnlyFinishedStores ==
  \A j \in DOMAIN calls :
    (calls[j].op = "GenerateXctestrun" /\ calls[j].ret # 0)
      => \E i \in 1..j :
           /\ calls[i].op = "GenerateXctestrun"
           /\ calls[i].exc = ""
           /\ calls[i].ret = calls[j].ret
           /\ calls[i].writes > 0

\* C22: when a GenerateXctestrun() has just returned a store, the document
\* file the store is bound to exists, whatever calls of
\* GenerateXctestrun() and Close() came before.
C22_DocumentOnDisk ==
  (calls # <<>> /\ LastCall.op = "GenerateXctestrun" /\ LastCall.ret # 0)
    => /\ xctestrun_file_path # <<>>
       /\ Exists(fs, xctestrun_file_path)

====
